---- MODULE Spec2Model ----
(***************************************************************************)
(* Model of scripts/face_matcher.py: the command-line guard of __main__    *)
(* and the function match_faces, followed through its library calls.       *)
(*                                                                         *)
(* Numbers.  Distances and similarities are fixed-point numbers counted in *)
(* fifths: One = 5 stands for 1.0, Threshold = 3 for 0.6.  A face encoding  *)
(* (128 floats in the library) is one coordinate on a line and             *)
(* face_distance is the Euclidean norm of the difference, |a - b|.         *)
(*                                                                         *)
(* Types.  face_recognition.face_distance returns a numpy array, so the    *)
(* element taken at line 45 is a numpy.float64, 1 - face_distance is a     *)
(* numpy.float64 and the comparison at line 53 is a numpy.bool_; float()   *)
(* at line 52 turns the similarity into a Python float.  Every typed       *)
(* value is a record [py |-> type name, v |-> value].                      *)
(*                                                                         *)
(* exit_status is the empty sequence while the process runs and holds the  *)
(* exit status once it has terminated; calls lists the calls made so far.  *)
(***************************************************************************)
EXTENDS Integers, Sequences, FiniteSets, TLC

VARIABLES pc, argc, calls, exc, frame_encodings, profile_encodings,
          face_distance, result, stdout, stderr, exit_status

vars == <<pc, argc, calls, exc, frame_encodings, profile_encodings,
          face_distance, result, stdout, stderr, exit_status>>

\* ---- bounds ----
MaxArgc == 4          \* len(sys.argv) ranges over 1..MaxArgc
MaxFaces == 2         \* face_encodings returns 0..MaxFaces encodings
MaxCoord == 6         \* an encoding is a coordinate in 0..MaxCoord (fifths)

\* ---- program constants ----
One == 5              \* the literal 1 of "1 - face_distance", in fifths
Threshold == 3        \* the literal 0.6 of "similarity >= 0.6", in fifths
ArgvLen == 3          \* the literal 3 of "len(sys.argv) != 3"

NoFaceInVideo == "No face detected in verification video"
NoFaceInProfile == "No face detected in profile photo"
MultipleFaces == "Multiple faces detected in video"
UsageMsg == "Usage: python3 face_matcher.py <frame_path> <profile_path>"

\* str(e) of the exceptions the library calls raise: an exception built
\* without arguments (MemoryError()) has the empty message.
ExcMsgs == {"", "library error"}

NoExc == [at |-> "none", msg |-> ""]
NoResult == [k \in {} |-> FALSE]
NoDistance == [py |-> "unset", v |-> 0]

Encodings == 0..MaxCoord
EncodingLists == UNION {[1..n -> Encodings] : n \in 0..MaxFaces}

Abs(x) == IF x < 0 THEN -x ELSE x

\* face_recognition.face_distance([a], b)[0]: the norm, a numpy.float64
FaceDistance(a, b) == [py |-> "numpy.float64", v |-> Abs(a - b)]

\* x[0] of a list of encodings (Last: the variant taking x[-1])
Last(encs) == encs[Len(encs)]
First(encs) == encs[1]

\* similarity = 1 - face_distance (numpy arithmetic keeps the numpy type)
Similarity(d) == [py |-> d.py, v |-> One - d.v]

\* similarity >= 0.6: comparing a numpy.float64 yields a numpy.bool_
\* (IsMatchStrict: the variant comparing with >)
IsMatchStrict(s) ==
    [py |-> IF s.py = "numpy.float64" THEN "numpy.bool_" ELSE "bool",
     v |-> s.v > Threshold]
IsMatch(s) ==
    [py |-> IF s.py = "numpy.float64" THEN "numpy.bool_" ELSE "bool",
     v |-> s.v >= Threshold]

\* float(x)
Float(s) == [py |-> "float", v |-> s.v]

ErrorResult(msg) == [success |-> FALSE, error |-> msg]

\* the dictionary returned at lines 50-54
\* (SuccessResultNoMatch: the variant without the match field)
SuccessResultNoMatch(s) == [success |-> TRUE, similarity |-> Float(s)]
SuccessResult(s) ==
    [success |-> TRUE, similarity |-> Float(s), match |-> IsMatch(s)]

\* the dictionary returned by the except clause, lines 56-60
\* (ExceptResultTypeName: the variant reporting a fixed name, not str(e))
ExceptResultTypeName(msg) == [success |-> FALSE, error |-> "Exception"]
ExceptResult(msg) == [success |-> FALSE, error |-> msg]

\* the three early returns of lines 22-38, in the order of the code;
\* "ok" when none of them is taken.  The three variants before it test
\* the profile first, test several faces before the profile, and omit
\* the test for several faces.
CheckFacesProfileFirst(fe, pe) ==
    IF Len(pe) = 0 THEN NoFaceInProfile
    ELSE IF Len(fe) = 0 THEN NoFaceInVideo
    ELSE IF Len(fe) > 1 THEN MultipleFaces
    ELSE "ok"
CheckFacesMultipleFirst(fe, pe) ==
    IF Len(fe) = 0 THEN NoFaceInVideo
    ELSE IF Len(fe) > 1 THEN MultipleFaces
    ELSE IF Len(pe) = 0 THEN NoFaceInProfile
    ELSE "ok"
CheckFacesNoMultiple(fe, pe) ==
    IF Len(fe) = 0 THEN NoFaceInVideo
    ELSE IF Len(pe) = 0 THEN NoFaceInProfile
    ELSE "ok"
CheckFaces(fe, pe) ==
    IF Len(fe) = 0 THEN NoFaceInVideo
    ELSE IF Len(pe) = 0 THEN NoFaceInProfile
    ELSE IF Len(fe) > 1 THEN MultipleFaces
    ELSE "ok"

\* len(sys.argv) != 3 (WrongArgCountFewer: the variant testing < 3)
WrongArgCountFewer(n) == n < ArgvLen
WrongArgCount(n) == n # ArgvLen

\* ---- json.dumps ----
\* Python floats, bools and strings serialize; a numpy.bool_ does not
\* (TypeError).  The messages of this model need no escaping.
Serializable(obj) ==
    \A k \in DOMAIN obj :
        k \in {"similarity", "match"} => obj[k].py \in {"float", "bool"}

BoolText(b) == IF b THEN "true" ELSE "false"

\* repr of a float counted in fifths: 3 -> "0.6", -1 -> "-0.2", 5 -> "1.0"
FloatText(n) ==
    (IF n < 0 THEN "-" ELSE "") \o ToString((2 * Abs(n)) \div 10)
        \o "." \o ToString((2 * Abs(n)) % 10)

JsonText(obj) ==
    "{\"success\": " \o BoolText(obj.success)
    \o (IF "similarity" \in DOMAIN obj
        THEN ", \"similarity\": " \o FloatText(obj.similarity.v) ELSE "")
    \o (IF "match" \in DOMAIN obj
        THEN ", \"match\": " \o BoolText(obj.match.v) ELSE "")
    \o (IF "error" \in DOMAIN obj
        THEN ", \"error\": \"" \o obj.error \o "\"" ELSE "")
    \o "}"

TypeErrorMsg == "TypeError: Object of type bool_ is not JSON serializable"

\* ---- the program ----
Init ==
    /\ pc = "main"
    /\ argc \in 1..MaxArgc
    /\ calls = << >>
    /\ exc = NoExc
    /\ frame_encodings = << >>
    /\ profile_encodings = << >>
    /\ face_distance = NoDistance
    /\ result = NoResult
    /\ stdout = << >>
    /\ stderr = << >>
    /\ exit_status = << >>

\* lines 63-68: wrong argument count
UsageError ==
    /\ pc = "main"
    /\ WrongArgCount(argc)
    /\ result' = ErrorResult(UsageMsg)
    /\ stdout' = Append(stdout, JsonText(ErrorResult(UsageMsg)))
    /\ exit_status' = <<1>>
    /\ pc' = "exited"
    /\ UNCHANGED <<argc, calls, exc, frame_encodings, profile_encodings,
                   face_distance, stderr>>

\* line 70: match_faces is entered
CallMatchFaces ==
    /\ pc = "main"
    /\ ~WrongArgCount(argc)
    /\ calls' = Append(calls, "match_faces")
    /\ pc' = "load_frame"
    /\ UNCHANGED <<argc, exc, frame_encodings, profile_encodings,
                   face_distance, result, stdout, stderr, exit_status>>

\* a library call raises inside the try block: the except clause returns
Raises(site, name) ==
    /\ pc = site
    /\ \E msg \in ExcMsgs :
        /\ exc' = [at |-> site, msg |-> msg]
        /\ result' = ExceptResult(msg)
    /\ calls' = Append(calls, name)
    /\ pc' = "print"
    /\ UNCHANGED <<argc, frame_encodings, profile_encodings, face_distance,
                   stdout, stderr, exit_status>>

\* line 15
LoadFrame ==
    /\ pc = "load_frame"
    /\ calls' = Append(calls, "load_image_file")
    /\ pc' = "load_profile"
    /\ UNCHANGED <<argc, exc, frame_encodings, profile_encodings,
                   face_distance, result, stdout, stderr, exit_status>>

LoadFrameRaises == Raises("load_frame", "load_image_file")

\* line 16
LoadProfile ==
    /\ pc = "load_profile"
    /\ calls' = Append(calls, "load_image_file")
    /\ pc' = "encode_frame"
    /\ UNCHANGED <<argc, exc, frame_encodings, profile_encodings,
                   face_distance, result, stdout, stderr, exit_status>>

LoadProfileRaises == Raises("load_profile", "load_image_file")

\* line 19
EncodeFrame ==
    /\ pc = "encode_frame"
    /\ \E encs \in EncodingLists : frame_encodings' = encs
    /\ calls' = Append(calls, "face_encodings")
    /\ pc' = "encode_profile"
    /\ UNCHANGED <<argc, exc, profile_encodings, face_distance, result,
                   stdout, stderr, exit_status>>

EncodeFrameRaises == Raises("encode_frame", "face_encodings")

\* line 20
EncodeProfile ==
    /\ pc = "encode_profile"
    /\ \E encs \in EncodingLists : profile_encodings' = encs
    /\ calls' = Append(calls, "face_encodings")
    /\ pc' = "check"
    /\ UNCHANGED <<argc, exc, frame_encodings, face_distance, result,
                   stdout, stderr, exit_status>>

EncodeProfileRaises == Raises("encode_profile", "face_encodings")

\* lines 22-38: one of the early returns
RejectFaces ==
    /\ pc = "check"
    /\ CheckFaces(frame_encodings, profile_encodings) # "ok"
    /\ result' = ErrorResult(CheckFaces(frame_encodings, profile_encodings))
    /\ pc' = "print"
    /\ UNCHANGED <<argc, calls, exc, frame_encodings, profile_encodings,
                   face_distance, stdout, stderr, exit_status>>

\* lines 22-38: no early return is taken
AcceptFaces ==
    /\ pc = "check"
    /\ CheckFaces(frame_encodings, profile_encodings) = "ok"
    /\ pc' = "compare"
    /\ UNCHANGED <<argc, calls, exc, frame_encodings, profile_encodings,
                   face_distance, result, stdout, stderr, exit_status>>

\* lines 41-54
Compare ==
    /\ pc = "compare"
    /\ face_distance' = FaceDistance(First(profile_encodings),
                                     First(frame_encodings))
    /\ result' = SuccessResult(Similarity(face_distance'))
    /\ calls' = Append(calls, "face_distance")
    /\ pc' = "print"
    /\ UNCHANGED <<argc, exc, frame_encodings, profile_encodings,
                   stdout, stderr, exit_status>>

CompareRaises == Raises("compare", "face_distance")

\* line 71, json.dumps returns: the line is printed, the script ends
PrintResult ==
    /\ pc = "print"
    /\ Serializable(result)
    /\ stdout' = Append(stdout, JsonText(result))
    /\ exit_status' = <<0>>
    /\ pc' = "exited"
    /\ UNCHANGED <<argc, calls, exc, frame_encodings, profile_encodings,
                   face_distance, result, stderr>>

\* line 71, json.dumps raises outside any try block: the interpreter
\* prints the traceback on standard error and exits with status 1
PrintRaises ==
    /\ pc = "print"
    /\ ~Serializable(result)
    /\ stderr' = Append(stderr, TypeErrorMsg)
    /\ exit_status' = <<1>>
    /\ pc' = "exited"
    /\ UNCHANGED <<argc, calls, exc, frame_encodings, profile_encodings,
                   face_distance, result, stdout>>

Next ==
    \/ UsageError
    \/ CallMatchFaces
    \/ LoadFrame
    \/ LoadFrameRaises
    \/ LoadProfile
    \/ LoadProfileRaises
    \/ EncodeFrame
    \/ EncodeFrameRaises
    \/ EncodeProfile
    \/ EncodeProfileRaises
    \/ RejectFaces
    \/ AcceptFaces
    \/ Compare
    \/ CompareRaises
    \/ PrintResult
    \/ PrintRaises

Spec == Init /\ [][Next]_vars

\* ---- vocabulary of the properties ----
CallCount(name) == Cardinality({i \in DOMAIN calls : calls[i] = name})

\* face_encodings has returned a list for the frame
FrameCounted ==
    /\ CallCount("face_encodings") >= 1
    /\ exc.at # "encode_frame"

\* both face_encodings calls have returned a list
FacesCounted ==
    /\ CallCount("face_encodings") = 2
    /\ exc.at \notin {"encode_frame", "encode_profile"}

\* match_faces has returned and result holds what it returned
Returned == pc \in {"print", "exited"} /\ CallCount("match_faces") = 1

Exited == pc = "exited"

IsError(r, msg) ==
    /\ DOMAIN r = {"success", "error"}
    /\ r.success = FALSE
    /\ r.error = msg

IsSuccess(r) ==
    /\ DOMAIN r = {"success", "similarity", "match"}
    /\ r.success = TRUE

ErrorLine(msg) == "{\"success\": false, \"error\": \"" \o msg \o "\"}"

\* the similarity and the verdict the two encodings a and b call for
ComparedWith(r, a, b) ==
    /\ IsSuccess(r)
    /\ r.similarity.v = One - Abs(a - b)
    /\ r.match.v = (r.similarity.v >= Threshold)

\* C1: when each image yields exactly one encoding and no library call
\* raises, match_faces returns success = true with
\* similarity = 1 - face_distance(profile encoding, frame encoding) and
\* match = (similarity >= 0.6).
C1_SingleFacesMatch ==
    (/\ Returned
     /\ FacesCounted
     /\ Len(frame_encodings) = 1
     /\ Len(profile_encodings) = 1
     /\ exc = NoExc)
    => ComparedWith(result, profile_encodings[1], frame_encodings[1])

\* a comparison whose similarity sits exactly on the threshold
C1_Witness ==
    /\ Returned
    /\ FacesCounted
    /\ Len(frame_encodings) = 1
    /\ Len(profile_encodings) = 1
    /\ exc = NoExc
    /\ IsSuccess(result)
    /\ result.similarity.v = Threshold
    /\ result.match.v = TRUE

\* C2: whenever match_faces returns success = true, the similarity lies
\* in [0,1], whatever distance the library returned.
C2_SimilarityInUnitInterval ==
    (Returned /\ IsSuccess(result))
    => (result.similarity.v >= 0 /\ result.similarity.v <= One)

\* C3 as stated: a frame with more than one face gives the multiple-faces
\* error whatever the number of faces in the profile (zero included).
C3_MultipleFacesAnyProfile ==
    (Exited /\ FacesCounted /\ Len(frame_encodings) > 1)
    => (/\ IsError(result, MultipleFaces)
        /\ stdout = <<ErrorLine(MultipleFaces)>>)

\* C3 amended: a frame with more than one face and a profile with at
\* least one face give the multiple-faces error.
C3_MultipleFacesWithProfileFace ==
    (/\ Exited
     /\ FacesCounted
     /\ Len(frame_encodings) > 1
     /\ Len(profile_encodings) >= 1)
    => (/\ IsError(result, MultipleFaces)
        /\ stdout = <<ErrorLine(MultipleFaces)>>)

C3_Witness ==
    /\ Exited
    /\ FacesCounted
    /\ Len(frame_encodings) = 2
    /\ Len(profile_encodings) = 2
    /\ stdout = <<ErrorLine(MultipleFaces)>>

\* C4: with exactly two path arguments the process prints exactly one
\* JSON line and exits with status 0, whatever the library calls do; a
\* nonzero status occurs only when the argument count is wrong.
C4_OneLineAndExitZero ==
    Exited =>
        /\ argc = ArgvLen => (Len(stdout) = 1 /\ exit_status = <<0>>)
        /\ exit_status # <<0>> => argc # ArgvLen

\* the failures of C5: a library call raised, or the face counts are
\* rejected (no face in the frame, none in the profile, several in the
\* frame)
Failure ==
    /\ CallCount("match_faces") = 1
    /\ \/ exc # NoExc
       \/ /\ pc \in {"print", "exited"}
          /\ FacesCounted
          /\ \/ Len(frame_encodings) = 0
             \/ Len(profile_encodings) = 0
             \/ Len(frame_encodings) > 1

\* what C5 promises of a failure apart from the error string: it is
\* returned as a two-field error object, printed, and the process ends
\* normally
ReportedNotFatal ==
    /\ Returned
    /\ DOMAIN result = {"success", "error"}
    /\ result.success = FALSE
    /\ exc # NoExc => result.error = exc.msg
    /\ Exited => (/\ exit_status = <<0>>
                  /\ stdout = <<ErrorLine(result.error)>>
                  /\ stderr = << >>)

\* C5 as stated: every failure is caught in match_faces and reported with
\* success = false and a non-empty error string (the message of the
\* exception when one was raised); none ends the process abnormally.
C5_FailureHasNonEmptyError ==
    Failure => (ReportedNotFatal /\ result.error # "")

\* C5 amended: every failure is caught in match_faces and reported with
\* success = false and an error string, which is one of the three fixed
\* messages for a face-count failure and the message of the exception when
\* one was raised (empty when the exception has no message); none ends the
\* process abnormally.
C5_FailureReported ==
    Failure =>
        /\ ReportedNotFatal
        /\ exc = NoExc =>
              result.error \in {NoFaceInVideo, NoFaceInProfile, MultipleFaces}

\* an exception without a message, reported and printed
C5_Witness ==
    /\ Exited
    /\ exc = [at |-> "compare", msg |-> ""]
    /\ stdout = <<ErrorLine("")>>
    /\ exit_status = <<0>>

\* C6 as stated: whenever face detection on the frame yields zero
\* encodings the output is exactly
\* {success: false, error: "No face detected in verification video"},
\* whatever the profile image is.
C6_NoFaceInFrameAlways ==
    (Exited /\ FrameCounted /\ Len(frame_encodings) = 0)
    => (/\ IsError(result, NoFaceInVideo)
        /\ stdout = <<"{\"success\": false, \"error\": \"No face detected in verification video\"}">>
        /\ exit_status = <<0>>)

\* C6 amended: whenever face detection on the frame yields zero encodings
\* and face detection on the profile returns (any number of encodings),
\* the output is exactly
\* {success: false, error: "No face detected in verification video"}.
C6_NoFaceInFrameFirst ==
    (Exited /\ FacesCounted /\ Len(frame_encodings) = 0)
    => (/\ IsError(result, NoFaceInVideo)
        /\ stdout = <<"{\"success\": false, \"error\": \"No face detected in verification video\"}">>
        /\ exit_status = <<0>>)

\* neither image has a face: the frame's message is the one reported
C6_Witness ==
    /\ Exited
    /\ FacesCounted
    /\ Len(frame_encodings) = 0
    /\ Len(profile_encodings) = 0
    /\ IsError(result, NoFaceInVideo)
    /\ Len(stdout) = 1

\* C7: a frame with at least one face and a profile with none give the
\* profile-specific error, never the frame-specific one.
C7_NoFaceInProfile ==
    (/\ Exited
     /\ FacesCounted
     /\ Len(frame_encodings) >= 1
     /\ Len(profile_encodings) = 0)
    => (/\ IsError(result, NoFaceInProfile)
        /\ result.error # NoFaceInVideo
        /\ stdout = <<ErrorLine(NoFaceInProfile)>>)

\* several faces in the frame, none in the profile
C7_Witness ==
    /\ Exited
    /\ FacesCounted
    /\ Len(frame_encodings) > 1
    /\ Len(profile_encodings) = 0
    /\ stdout = <<ErrorLine(NoFaceInProfile)>>

\* C8: with an argument count other than two paths the process prints one
\* JSON object with success = false and the usage message, exits with
\* status 1 and never calls match_faces or the library.
C8_UsageError ==
    argc # ArgvLen =>
        /\ calls = << >>
        /\ pc \in {"main", "exited"}
        /\ pc = "main" => (stdout = << >> /\ exit_status = << >>)
        /\ pc = "exited" => (/\ stdout = <<ErrorLine(UsageMsg)>>
                             /\ IsError(result, UsageMsg)
                             /\ exit_status = <<1>>)

\* one argument too many
C8_Witness ==
    /\ Exited
    /\ argc > ArgvLen
    /\ exit_status = <<1>>
    /\ Len(stdout) = 1

\* C9: every result object has success, and success = true exactly when
\* similarity and match are present and error absent, success = false
\* exactly when error is present and similarity and match absent.
C9_ResultShape ==
    DOMAIN result # {} =>
        /\ "success" \in DOMAIN result
        /\ result.success = TRUE <=>
              (/\ "similarity" \in DOMAIN result
               /\ "match" \in DOMAIN result
               /\ "error" \notin DOMAIN result)
        /\ result.success = FALSE <=>
              (/\ "error" \in DOMAIN result
               /\ "similarity" \notin DOMAIN result
               /\ "match" \notin DOMAIN result)

C9_Witness ==
    /\ Returned
    /\ DOMAIN result = {"success", "similarity", "match"}
    /\ result.success = TRUE

\* C10 as stated: one face in the frame and two or more in the profile
\* always give success = true, computed from the first profile encoding.
C10_SeveralProfileFacesSucceed ==
    (/\ Returned
     /\ FacesCounted
     /\ Len(frame_encodings) = 1
     /\ Len(profile_encodings) >= 2)
    => ComparedWith(result, profile_encodings[1], frame_encodings[1])

\* C10 amended: one face in the frame, two or more in the profile and a
\* distance computation that does not raise give success = true, with
\* similarity and match computed from the first profile encoding alone.
C10_FirstProfileFaceCompared ==
    (/\ Returned
     /\ FacesCounted
     /\ Len(frame_encodings) = 1
     /\ Len(profile_encodings) >= 2
     /\ exc = NoExc)
    => ComparedWith(result, profile_encodings[1], frame_encodings[1])

\* the second profile face is the frame's face, the first is far from it
C10_Witness ==
    /\ Returned
    /\ FacesCounted
    /\ Len(frame_encodings) = 1
    /\ Len(profile_encodings) = 2
    /\ profile_encodings[2] = frame_encodings[1]
    /\ IsSuccess(result)
    /\ result.match.v = FALSE

====
